---- MODULE Spec2Model ----
(***************************************************************************)
(* The rules engine of The Hero Foundry backend: the ruleset status        *)
(* machine (src/src/server/models/ruleset.py) and the character            *)
(* progression and derivation code (src/src/server/models/character.py),   *)
(* driven through the handlers of src/src/server/api/v1/endpoints.         *)
(***************************************************************************)
EXTENDS Integers, FiniteSets, Sequences, TLC

VARIABLES
    status,                 \* Ruleset.status of every ruleset row
    ruleset_dependencies,   \* rows of the association table ruleset_dependencies
    was_terminal,           \* history: the ruleset's status has once been deprecated or archived
    rlast,                  \* history: the last ruleset call, its result and the statuses before it
    character,              \* the Character row
    updates,                \* history: the number of update_character calls so far
    clast,                  \* history: the last character call, its input, result and the row before it
    ruleset_type,           \* Ruleset.ruleset_type of every ruleset row
    compatibility_version,  \* Ruleset.compatibility_version of every ruleset row
    content_path,           \* Ruleset.content_path of every ruleset row
    existing_paths,         \* the paths that exist in the file system
    request,                \* the body of the homebrew request being served
    hlast                   \* history: the last homebrew call and its result

vars == <<status, ruleset_dependencies, was_terminal, rlast, character, updates, clast,
          ruleset_type, compatibility_version, content_path, existing_paths, request, hlast>>

avars == <<ruleset_type, compatibility_version, content_path, existing_paths>>
rvars == <<status, ruleset_dependencies, was_terminal, rlast, avars>>
cvars == <<character, updates, clast>>
hvars == <<request, hlast>>

(***************************************************************************)
(* Bounds of the model.                                                    *)
(***************************************************************************)
MaxEdges == 1       \* rows in ruleset_dependencies
MaxLevel == 5       \* level_up is not called on a character of this level
MaxXP == 600        \* add_experience is not called beyond this total
MaxUpdates == 1     \* update_character calls in one behaviour

(***************************************************************************)
(* Rulesets.                                                               *)
(***************************************************************************)
None == "None"

Rulesets == {"r1", "r2", "r3"}

\* A string is the sequence of its characters.  The NULL of a string column is
\* kept apart from every string.
NoVersion == <<None>>

DRAFT == "draft"
ACTIVE == "active"
DEPRECATED == "deprecated"
ARCHIVED == "archived"

RulesetStatus == {DRAFT, ACTIVE, DEPRECATED, ARCHIVED}

DependencyTypes == {"required", "optional", "conflicts"}

\* The tables over a set of (ruleset_id, dependency_id) keys: the pair is the
\* primary key, so a table holds at most one row per pair.
DependencyTables ==
    LET Pairs == {p \in Rulesets \X Rulesets : p[1] # p[2]}
        Keys == {P \in SUBSET Pairs : Cardinality(P) <= MaxEdges}
    IN  UNION {
            { {[ruleset_id |-> p[1], dependency_id |-> p[2], dependency_type |-> f[p]] : p \in P}
              : f \in [P -> DependencyTypes] }
            : P \in Keys }

\* A Ruleset instance as the ORM loads it: its mapped columns.  dependency_type
\* is a column of the association table, not of the rulesets table.
RulesetObject(r) ==
    [id |-> r, status |-> status[r], ruleset_type |-> ruleset_type[r],
     compatibility_version |-> compatibility_version[r], content_path |-> content_path[r]]

\* Ruleset.dependencies: the Ruleset instances reached through the secondary table.
dependencies(self) ==
    {RulesetObject(row.dependency_id) : row \in {x \in ruleset_dependencies : x.ruleset_id = self}}

hasattr(obj, name) == name \in DOMAIN obj

is_active(obj) == obj.status = ACTIVE

\* can_be_activated as it would read with a check of the conflicts rows of the
\* association table added to it.
can_be_activated_conflicts(self) ==
    /\ status[self] \notin {DEPRECATED, ARCHIVED}
    /\ \A row \in ruleset_dependencies :
          (row.ruleset_id = self /\ row.dependency_type = "conflicts")
              => status[row.dependency_id] # ACTIVE

can_be_activated(self) ==
    IF status[self] = DEPRECATED \/ status[self] = ARCHIVED
    THEN FALSE
    ELSE LET required_deps == {dep \in dependencies(self) :
                                 hasattr(dep, "dependency_type") /\ dep.dependency_type = "required"}
         IN  \A dep \in required_deps : is_active(dep)

\* activate without its test of can_be_activated.
activate_unconditional(self) == [status |-> ACTIVE, ret |-> TRUE]

\* The methods return the ruleset's new status (and activate its boolean result).
activate(self) ==
    IF ~can_be_activated(self)
    THEN [status |-> status[self], ret |-> FALSE]
    ELSE [status |-> ACTIVE, ret |-> TRUE]

deactivate(self) == DRAFT

deprecate(self) == DEPRECATED

archive(self) == ARCHIVED

Digits == {"0", "1", "2", "3", "4", "5", "6", "7", "8", "9"}

digit(ch) ==
    CASE ch = "0" -> 0 [] ch = "1" -> 1 [] ch = "2" -> 2 [] ch = "3" -> 3 [] ch = "4" -> 4
      [] ch = "5" -> 5 [] ch = "6" -> 6 [] ch = "7" -> 7 [] ch = "8" -> 8 [] ch = "9" -> 9

\* The value of a string of decimal digits.
RECURSIVE decimal(_)
decimal(x) ==
    IF x = <<>> THEN 0 ELSE 10 * decimal(SubSeq(x, 1, Len(x) - 1)) + digit(x[Len(x)])

\* int(x) of a string: its value, or the ValueError it raises for the empty
\* string and for a string with a character that is no digit.
int(x) ==
    IF x # <<>> /\ \A i \in DOMAIN x : x[i] \in Digits
    THEN [raised |-> None, value |-> decimal(x)]
    ELSE [raised |-> "ValueError", value |-> 0]

\* version.split('.'): the parts between the dots, empty parts included.
RECURSIVE split(_)
split(version) ==
    IF \A i \in DOMAIN version : version[i] # "."
    THEN <<version>>
    ELSE LET dot == CHOOSE i \in DOMAIN version :
                        version[i] = "." /\ \A j \in 1..(i - 1) : version[j] # "."
         IN  <<SubSeq(version, 1, dot - 1)>> \o split(SubSeq(version, dot + 1, Len(version)))

\* _versions_are_compatible with the major versions compared by <=.
_versions_are_compatible_ordered(version1, version2) ==
    LET v1_parts == [i \in DOMAIN split(version1) |-> int(split(version1)[i])]
        v2_parts == [i \in DOMAIN split(version2) |-> int(split(version2)[i])]
        raised == \/ \E i \in DOMAIN v1_parts : v1_parts[i].raised # None
                  \/ \E i \in DOMAIN v2_parts : v2_parts[i].raised # None
    IN  IF raised THEN FALSE ELSE v1_parts[1].value <= v2_parts[1].value

\* _versions_are_compatible with only the first part of each version parsed.
_versions_are_compatible_major_only(version1, version2) ==
    LET v1_major == int(split(version1)[1])
        v2_major == int(split(version2)[1])
    IN  IF v1_major.raised # None \/ v2_major.raised # None
        THEN FALSE
        ELSE v1_major.value = v2_major.value

\* Every part of both versions is parsed before the first parts are compared;
\* a ValueError of any part is caught and answered False.
_versions_are_compatible(version1, version2) ==
    LET v1_parts == [i \in DOMAIN split(version1) |-> int(split(version1)[i])]
        v2_parts == [i \in DOMAIN split(version2) |-> int(split(version2)[i])]
        raised == \/ \E i \in DOMAIN v1_parts : v1_parts[i].raised # None
                  \/ \E i \in DOMAIN v2_parts : v2_parts[i].raised # None
    IN  IF raised THEN FALSE ELSE v1_parts[1].value = v2_parts[1].value

_get_conflicting_rulesets(self) ==
    {dep \in dependencies(self) :
        hasattr(dep, "dependency_type") /\ dep.dependency_type = "conflicts"}

\* bool() of a string column: NULL and the empty string are false.
truthy(x) == x # NoVersion /\ x # <<>>

is_compatible_with(self, other_ruleset) ==
    IF RulesetObject(other_ruleset) \in _get_conflicting_rulesets(self)
    THEN FALSE
    ELSE IF ruleset_type[self] # ruleset_type[other_ruleset]
    THEN FALSE
    ELSE IF /\ truthy(compatibility_version[self])
            /\ truthy(compatibility_version[other_ruleset])
            /\ ~_versions_are_compatible(compatibility_version[self],
                                         compatibility_version[other_ruleset])
    THEN FALSE
    ELSE TRUE

\* get_validation_errors: the errors of the required fields and of the content
\* path, then those of the dependencies.
get_validation_errors(self) ==
    LET not_active == {dep \in dependencies(self) :
                          /\ hasattr(dep, "dependency_type")
                          /\ dep.dependency_type = "required"
                          /\ ~is_active(dep)}
        RECURSIVE listed(_)
        listed(deps) ==
            IF deps = {} THEN <<>>
            ELSE LET dep == CHOOSE d \in deps : TRUE
                 IN  <<"Required dependency is not active: " \o dep.id>> \o listed(deps \ {dep})
    IN  (IF content_path[self] = "" THEN <<"Content path is required">> ELSE <<>>)
            \o (IF ruleset_type[self] = "" THEN <<"Ruleset type is required">> ELSE <<>>)
            \o (IF content_path[self] \notin existing_paths
                THEN <<"Content path does not exist: " \o content_path[self]>> ELSE <<>>)
            \o listed(not_active)

\* str() of a call's result.
Str(b) == IF b THEN "True" ELSE "False"

NoCall == [op |-> "none", id |-> "none", ret |-> "None", pre |-> [r \in Rulesets |-> DRAFT]]

\* The content directory of a ruleset.
directory(r) == "/rulesets/" \o r

\* Every ruleset has its content directory, and the directory exists.
DefaultPaths ==
    /\ content_path = [r \in Rulesets |-> directory(r)]
    /\ existing_paths = {directory(r) : r \in Rulesets}

\* Rulesets of one type that carry no compatibility_version.
DefaultAttributes ==
    /\ ruleset_type = [r \in Rulesets |-> "dnd_5e"]
    /\ compatibility_version = [r \in Rulesets |-> NoVersion]
    /\ DefaultPaths

\* No homebrew request has been served.
NoRequest == [content_type |-> None, ruleset_id |-> None, content |-> <<>>]
NoHomebrewCall == [op |-> "none", status |-> 0]
NoHomebrew == request = NoRequest /\ hlast = NoHomebrewCall

Activate(r) ==
    LET res == activate(r)
    IN  /\ status' = [status EXCEPT ![r] = res.status]
        /\ was_terminal' = [was_terminal EXCEPT ![r] = @ \/ res.status \in {DEPRECATED, ARCHIVED}]
        /\ rlast' = [op |-> "activate", id |-> r, ret |-> Str(res.ret), pre |-> status,
                      can_be_activated |-> Str(can_be_activated(r))]
        /\ UNCHANGED <<ruleset_dependencies, avars, cvars, hvars>>

\* A deactivation that takes the active dependents of the ruleset with it.
Deactivate_cascading(r) ==
    /\ status' = [x \in Rulesets |->
                    IF x = r THEN deactivate(r)
                    ELSE IF status[x] = ACTIVE
                            /\ \E row \in ruleset_dependencies :
                                    /\ row.ruleset_id = x
                                    /\ row.dependency_id = r
                                    /\ row.dependency_type = "required"
                         THEN DRAFT
                         ELSE status[x]]
    /\ was_terminal' = was_terminal
    /\ rlast' = [op |-> "deactivate", id |-> r, ret |-> "None", pre |-> status]
    /\ UNCHANGED <<ruleset_dependencies, avars, cvars, hvars>>

Deactivate(r) ==
    /\ status' = [status EXCEPT ![r] = deactivate(r)]
    /\ was_terminal' = was_terminal
    /\ rlast' = [op |-> "deactivate", id |-> r, ret |-> "None", pre |-> status]
    /\ UNCHANGED <<ruleset_dependencies, avars, cvars, hvars>>

Deprecate(r) ==
    /\ status' = [status EXCEPT ![r] = deprecate(r)]
    /\ was_terminal' = [was_terminal EXCEPT ![r] = TRUE]
    /\ rlast' = [op |-> "deprecate", id |-> r, ret |-> "None", pre |-> status]
    /\ UNCHANGED <<ruleset_dependencies, avars, cvars, hvars>>

Archive(r) ==
    /\ status' = [status EXCEPT ![r] = archive(r)]
    /\ was_terminal' = [was_terminal EXCEPT ![r] = TRUE]
    /\ rlast' = [op |-> "archive", id |-> r, ret |-> "None", pre |-> status]
    /\ UNCHANGED <<ruleset_dependencies, avars, cvars, hvars>>

\* source_ruleset.is_compatible_with(target_ruleset)
IsCompatibleWith(source_ruleset, target_ruleset) ==
    /\ rlast' = [op |-> "is_compatible_with", id |-> source_ruleset,
                  other |-> target_ruleset,
                  ret |-> Str(is_compatible_with(source_ruleset, target_ruleset)),
                  pre |-> status]
    /\ UNCHANGED <<status, ruleset_dependencies, was_terminal, avars, cvars, hvars>>

\* GET /{ruleset_id}/validation
ValidateRuleset(r) ==
    LET validation_errors == get_validation_errors(r)
        active_rulesets == {a \in Rulesets \ {r} : status[a] = ACTIVE}
        compatibility_issues ==
            {"Conflicts with active ruleset: " \o a :
                a \in {x \in active_rulesets : ~is_compatible_with(r, x)}}
    IN  /\ rlast' = [op |-> "validate", id |-> r, pre |-> status,
                      ret |-> [is_valid |-> (Len(validation_errors) = 0),
                               validation_errors |-> validation_errors,
                               compatibility_issues |-> compatibility_issues,
                               can_be_activated |-> can_be_activated(r)]]
        /\ UNCHANGED <<status, ruleset_dependencies, was_terminal, avars, cvars, hvars>>

(***************************************************************************)
(* Claims about the ruleset status machine.                                *)
(***************************************************************************)
Terminal == {DEPRECATED, ARCHIVED}

RequiredRows(r) ==
    {row \in ruleset_dependencies : row.ruleset_id = r /\ row.dependency_type = "required"}

ConflictsWithActive(r, st) ==
    \E row \in ruleset_dependencies :
        /\ row.ruleset_id = r
        /\ row.dependency_type = "conflicts"
        /\ st[row.dependency_id] = ACTIVE

\* C1: a ruleset with a required dependency whose status is draft has
\* can_be_activated() false; with that dependency active (every required
\* dependency active, the ruleset itself not deprecated or archived) it is true.
C1_RequiredDependencyGatesActivation ==
    \A row \in ruleset_dependencies :
        row.dependency_type = "required" =>
            /\ status[row.dependency_id] = DRAFT => ~can_be_activated(row.ruleset_id)
            /\ ( /\ status[row.ruleset_id] \notin Terminal
                 /\ \A q \in RequiredRows(row.ruleset_id) : status[q.dependency_id] = ACTIVE )
                    => can_be_activated(row.ruleset_id)

\* C2: a ruleset whose status has once been deprecated or archived is never
\* active again, whatever activate/deactivate/deprecate/archive calls follow.
C2_TerminalNeverActiveAgain ==
    \A r \in Rulesets : was_terminal[r] => status[r] # ACTIVE

\* C3: no call leaves a terminal state: an archived ruleset stays archived and
\* a deprecated one is afterwards only deprecated or archived.
C3_NoTransitionLeavesTerminal ==
    \A r \in Rulesets :
        /\ rlast.pre[r] = ARCHIVED => status[r] = ARCHIVED
        /\ rlast.pre[r] = DEPRECATED => status[r] \in {DEPRECATED, ARCHIVED}

\* C4 (as claimed): activate() on a ruleset with a conflicts edge to a
\* currently-active ruleset returns false and leaves its status unchanged.
C4_ConflictBlocksActivation ==
    (rlast.op = "activate" /\ ConflictsWithActive(rlast.id, rlast.pre))
        => (rlast.ret = "False" /\ status[rlast.id] = rlast.pre[rlast.id])

\* C4 (amended): a conflicts edge to a currently-active ruleset does not block
\* activation.  activate() on a ruleset with such an edge returns false and
\* leaves the status unchanged when the ruleset is deprecated or archived, and
\* returns true and makes it active when it is draft or active and has no
\* required dependency.
C4_ConflictDoesNotBlockActivation ==
    (rlast.op = "activate" /\ ConflictsWithActive(rlast.id, rlast.pre)) =>
        /\ rlast.pre[rlast.id] \in Terminal
              => (rlast.ret = "False" /\ status[rlast.id] = rlast.pre[rlast.id])
        /\ (rlast.pre[rlast.id] \notin Terminal /\ RequiredRows(rlast.id) = {})
              => (rlast.ret = "True" /\ status[rlast.id] = ACTIVE)

C4_Witness ==
    /\ rlast.op = "activate"
    /\ ConflictsWithActive(rlast.id, rlast.pre)
    /\ rlast.pre[rlast.id] = DRAFT
    /\ rlast.ret = "True"
    /\ status[rlast.id] = ACTIVE

\* C29: activate(), deactivate(), deprecate() and archive() on a ruleset
\* change the status of that ruleset only: every other ruleset, the rulesets
\* that list it as a required dependency included, keeps its status, so that
\* deactivating a dependency leaves its active dependents active.
C29_OnlyOwnStatusChanges ==
    rlast.op \in {"activate", "deactivate", "deprecate", "archive"} =>
        \A r \in Rulesets \ {rlast.id} : status[r] = rlast.pre[r]

\* An active ruleset had a required dependency that was active and has been
\* deactivated: the dependency is a draft and the dependent is still active.
C29_Witness ==
    /\ rlast.op = "deactivate"
    /\ rlast.pre[rlast.id] = ACTIVE
    /\ status[rlast.id] = DRAFT
    /\ \E row \in ruleset_dependencies :
           /\ row.dependency_id = rlast.id
           /\ row.dependency_type = "required"
           /\ row.ruleset_id # rlast.id
           /\ rlast.pre[row.ruleset_id] = ACTIVE
           /\ status[row.ruleset_id] = ACTIVE

\* C25: activate() on a deprecated or archived ruleset returns false and
\* leaves every status as it was; more generally, whenever can_be_activated()
\* is false, activate() returns false and changes nothing.
C25_RefusedActivationChangesNothing ==
    rlast.op = "activate" =>
        /\ rlast.pre[rlast.id] \in Terminal => (rlast.ret = "False" /\ status = rlast.pre)
        /\ rlast.can_be_activated = "False" => (rlast.ret = "False" /\ status = rlast.pre)

\* activate() on an archived ruleset has answered false and the ruleset is
\* still archived.
C25_Witness ==
    /\ rlast.op = "activate"
    /\ rlast.pre[rlast.id] = ARCHIVED
    /\ rlast.can_be_activated = "False"
    /\ rlast.ret = "False"
    /\ status = rlast.pre

(***************************************************************************)
(* Characters.                                                             *)
(***************************************************************************)
Abilities == {"strength", "dexterity", "constitution", "intelligence", "wisdom", "charisma"}

\* The governing ability of each key of the skills dictionary.
SkillAbility ==
    [ acrobatics      |-> "dexterity",
      animal_handling |-> "wisdom",
      arcana          |-> "intelligence",
      athletics       |-> "strength",
      deception       |-> "charisma",
      history         |-> "intelligence",
      insight         |-> "wisdom",
      intimidation    |-> "charisma",
      investigation   |-> "intelligence",
      medicine        |-> "wisdom",
      nature          |-> "intelligence",
      perception      |-> "wisdom",
      performance     |-> "charisma",
      persuasion      |-> "charisma",
      religion        |-> "intelligence",
      sleight_of_hand |-> "dexterity",
      stealth         |-> "dexterity",
      survival        |-> "wisdom" ]

Skills == DOMAIN SkillAbility

\* The stored <ability>_modifier column of an ability.
get_ability_modifier(c, ability) ==
    CASE ability = "strength"     -> c.strength_modifier
      [] ability = "dexterity"    -> c.dexterity_modifier
      [] ability = "constitution" -> c.constitution_modifier
      [] ability = "intelligence" -> c.intelligence_modifier
      [] ability = "wisdom"       -> c.wisdom_modifier
      [] ability = "charisma"     -> c.charisma_modifier
      [] OTHER                    -> 0

\* str.lower() on the ability names the model uses.
lower(s) ==
    CASE s = "Wisdom"       -> "wisdom"
      [] s = "Intelligence" -> "intelligence"
      [] s = "Charisma"     -> "charisma"
      [] s = "Stealth"      -> "stealth"
      [] OTHER              -> s

\* Python's //: the quotient rounded toward negative infinity.
FloorDiv(a, b) == a \div b

_calculate_ability_modifiers(c) ==
    [c EXCEPT !.strength_modifier     = FloorDiv(c.strength - 10, 2),
              !.dexterity_modifier    = FloorDiv(c.dexterity - 10, 2),
              !.constitution_modifier = FloorDiv(c.constitution - 10, 2),
              !.intelligence_modifier = FloorDiv(c.intelligence - 10, 2),
              !.wisdom_modifier       = FloorDiv(c.wisdom - 10, 2),
              !.charisma_modifier     = FloorDiv(c.charisma - 10, 2)]

_calculate_skills(c) ==
    [c EXCEPT !.skills =
        [skill \in Skills |->
            get_ability_modifier(c, SkillAbility[skill])
              + (IF skill \in c.skill_proficiencies THEN c.proficiency_bonus ELSE 0)]]

\* _calculate_combat_values with the armor class taken from the modifier as it is.
_calculate_combat_values_unfloored(c) ==
    LET c1 == [c EXCEPT !.armor_class = 10 + c.dexterity_modifier,
                        !.initiative_bonus = c.dexterity_modifier]
    IN  IF c.spellcasting_ability # None
        THEN LET ability_modifier == get_ability_modifier(c, lower(c.spellcasting_ability))
             IN  [c1 EXCEPT !.spell_save_dc = 8 + c.proficiency_bonus + ability_modifier,
                            !.spell_attack_bonus = c.proficiency_bonus + ability_modifier]
        ELSE c1

_calculate_combat_values(c) ==
    LET ac == IF c.dexterity_modifier > 0 THEN 10 + c.dexterity_modifier ELSE 10
        c1 == [c EXCEPT !.armor_class = ac, !.initiative_bonus = c.dexterity_modifier]
    IN  IF c.spellcasting_ability # None
        THEN LET ability_modifier == get_ability_modifier(c, lower(c.spellcasting_ability))
             IN  [c1 EXCEPT !.spell_save_dc = 8 + c.proficiency_bonus + ability_modifier,
                            !.spell_attack_bonus = c.proficiency_bonus + ability_modifier]
        ELSE c1

__post_init__(c) ==
    _calculate_combat_values(_calculate_skills(_calculate_ability_modifiers(c)))

\* VersionedMixin.increment_version
increment_version(c, version_type) ==
    IF version_type = "major"
    THEN [c EXCEPT !.major_version = @ + 1, !.minor_version = 0, !.patch_version = 0]
    ELSE IF version_type = "minor"
    THEN [c EXCEPT !.minor_version = @ + 1, !.patch_version = 0]
    ELSE [c EXCEPT !.patch_version = @ + 1]

\* level_up with the threshold of the next level doubled.
level_up_doubling(c) ==
    LET c1 == [c EXCEPT !.level = @ + 1, !.experience_to_next_level = @ * 2]
        c2 == [c1 EXCEPT !.proficiency_bonus = 2 + FloorDiv(c1.level - 1, 4)]
    IN  increment_version(_calculate_combat_values(_calculate_skills(c2)), "minor")

\* level_up with the remainder of the division in place of its quotient.
level_up_remainder(c) ==
    LET c1 == [c EXCEPT !.level = @ + 1]
        c2 == [c1 EXCEPT !.proficiency_bonus = 2 + ((c1.level - 1) % 4)]
    IN  increment_version(_calculate_combat_values(_calculate_skills(c2)), "minor")

level_up(c) ==
    LET c1 == [c EXCEPT !.level = @ + 1]
        c2 == [c1 EXCEPT !.proficiency_bonus = 2 + FloorDiv(c1.level - 1, 4)]
    IN  increment_version(_calculate_combat_values(_calculate_skills(c2)), "minor")

\* add_experience as it would read if it looped, levelling up once more when
\* the total reaches twice the threshold.
add_experience_looping(c, xp) ==
    LET c1 == [c EXCEPT !.experience_points = @ + xp]
    IN  IF c1.experience_points >= 2 * c1.experience_to_next_level
        THEN [character |-> level_up(level_up(c1)), ret |-> TRUE]
        ELSE IF c1.experience_points >= c1.experience_to_next_level
        THEN [character |-> level_up(c1), ret |-> TRUE]
        ELSE [character |-> c1, ret |-> FALSE]

\* add_experience as it would read with the threshold test lost: every call
\* levels up.
add_experience_always(c, xp) ==
    LET c1 == [c EXCEPT !.experience_points = @ + xp]
    IN  [character |-> level_up(c1), ret |-> TRUE]

\* Character.add_experience: the row after the call and the returned flag.
add_experience(c, xp) ==
    LET c1 == [c EXCEPT !.experience_points = @ + xp]
    IN  IF c1.experience_points >= c1.experience_to_next_level
        THEN [character |-> level_up(c1), ret |-> TRUE]
        ELSE [character |-> c1, ret |-> FALSE]

\* get_skill_modifier: self.skills.get(skill.lower(), 0) if self.skills else 0.
\* Nothing is raised; a dict without entries is false.
get_skill_modifier(c, skill) ==
    IF DOMAIN c.skills # {}
    THEN [raised |-> None,
          value |-> IF lower(skill) \in DOMAIN c.skills THEN c.skills[lower(skill)] ELSE 0]
    ELSE [raised |-> None, value |-> 0]

\* BaseModel.update_from_dict: every key the row has, but the protected ones, is set.
update_from_dict(c, data) ==
    [key \in DOMAIN c |->
        IF key \in DOMAIN data /\ key \notin {"id", "created_at", "updated_at"}
        THEN data[key]
        ELSE c[key]]

\* The column defaults of a new row (Character and the mixins).
ColumnDefaults ==
    [ level |-> 1, experience_points |-> 0, experience_to_next_level |-> 300,
      strength |-> 10, dexterity |-> 10, constitution |-> 10,
      intelligence |-> 10, wisdom |-> 10, charisma |-> 10,
      strength_modifier |-> 0, dexterity_modifier |-> 0, constitution_modifier |-> 0,
      intelligence_modifier |-> 0, wisdom_modifier |-> 0, charisma_modifier |-> 0,
      armor_class |-> 10, initiative_bonus |-> 0,
      proficiency_bonus |-> 2, skill_proficiencies |-> {}, skills |-> None,
      spellcasting_ability |-> None, spell_save_dc |-> 0, spell_attack_bonus |-> 0,
      character_name |-> None,
      max_hit_points |-> 0, current_hit_points |-> 0, temporary_hit_points |-> 0,
      is_valid |-> TRUE, validation_errors |-> None,
      major_version |-> 1, minor_version |-> 0, patch_version |-> 0 ]

\* Character(**character_data): the defaults overridden by the data, then the
\* derived values calculated.
Character(character_data) ==
    __post_init__([key \in DOMAIN ColumnDefaults |->
        IF key \in DOMAIN character_data THEN character_data[key] ELSE ColumnDefaults[key]])

\* Inputs of the handlers.
CreateScores == {9, 10, 16}
SkillProficiencyInputs == {{}, {"athletics", "stealth", "insight", "arcana"}}
SpellcastingInputs == {None, "Wisdom"}
XpInputs == {-150, 0, 150, 300, 600}
SkillInputs == {"stealth", "Stealth", "flying"}
UpdateInputs ==
    {[key |-> a, value |-> 16] : a \in Abilities}
        \cup {[key |-> "level", value |-> v] : v \in {0, 5}}

\* The update that takes the spellcasting ability away.
SpellcastingUpdates == {[key |-> "spellcasting_ability", value |-> None]}

CreateInputs ==
    {[character_name |-> "Hero", dexterity |-> d, skill_proficiencies |-> p,
      spellcasting_ability |-> sp] :
        d \in CreateScores, p \in SkillProficiencyInputs, sp \in SpellcastingInputs}

NoCharacterCall == [op |-> "none", input |-> None, ret |-> None, pre |-> None]

\* POST /{character_id}/level-up
LevelUp ==
    /\ character.level < MaxLevel
    /\ character' = level_up(character)
    /\ clast' = [op |-> "level_up", input |-> None, ret |-> None, pre |-> character]
    /\ UNCHANGED <<rvars, hvars, updates>>

\* character.get_skill_modifier(skill)
GetSkillModifier(skill) ==
    /\ clast' = [op |-> "get_skill_modifier", input |-> skill,
                  ret |-> get_skill_modifier(character, skill), pre |-> character]
    /\ UNCHANGED <<rvars, hvars, character, updates>>

\* The declaration of the query parameter with its bound dropped.
experience_points_query_unbounded(value) == TRUE

\* experience_points: int = Query(..., ge=1)
experience_points_query(value) == value >= 1

\* POST /{character_id}/add-experience: a query parameter that fails its
\* declaration is answered 422 before the handler body runs.
AddExperience(experience_points) ==
    IF ~experience_points_query(experience_points)
    THEN /\ clast' = [op |-> "add_experience", input |-> experience_points,
                      ret |-> "InvalidInput", pre |-> character]
         /\ UNCHANGED <<rvars, hvars, character, updates>>
    ELSE LET res == add_experience(character, experience_points)
         IN  /\ character.experience_points + experience_points <= MaxXP
             /\ res.character.level <= MaxLevel
             /\ character' = res.character
             /\ clast' = [op |-> "add_experience", input |-> experience_points,
                          ret |-> Str(res.ret), pre |-> character]
             /\ UNCHANGED <<rvars, hvars, updates>>

\* PUT /{character_id}: the data is applied, and the request fails with 400,
\* nothing being committed, when the stored is_valid flag is false.
UpdateCharacter(character_data) ==
    LET updated == update_from_dict(character, character_data)
    IN  /\ updates < MaxUpdates
        /\ updates' = updates + 1
        /\ character' = IF updated.is_valid THEN updated ELSE character
        /\ clast' = [op |-> "update", input |-> character_data,
                     ret |-> IF updated.is_valid THEN "ok" ELSE "400", pre |-> character]
        /\ UNCHANGED <<rvars, hvars>>

\* The abilities in the order validate_character goes through them.
AbilityOrder ==
    <<"strength", "dexterity", "constitution", "intelligence", "wisdom", "charisma">>

\* str.title() of an ability name.
title(ability) ==
    CASE ability = "strength" -> "Strength"
      [] ability = "dexterity" -> "Dexterity"
      [] ability = "constitution" -> "Constitution"
      [] ability = "intelligence" -> "Intelligence"
      [] ability = "wisdom" -> "Wisdom"
      [] ability = "charisma" -> "Charisma"

score_error(ability) == title(ability) \o " score must be between 1 and 30"
score_warning(ability) == title(ability) \o " score is above 20 (unusual)"

\* The range test with its upper bound one too low.
score_out_of_range_below_30(score) == score < 1 \/ score > 29

\* if score < 1 or score > 30
score_out_of_range(score) == score < 1 \/ score > 30

\* elif score > 20
score_unusual(score) == ~score_out_of_range(score) /\ score > 20

\* The messages of the ability loop, in the order of the loop.
ability_errors(c) ==
    LET bad == SelectSeq(AbilityOrder, LAMBDA ability : score_out_of_range(c[ability]))
    IN  [i \in 1..Len(bad) |-> score_error(bad[i])]

ability_warnings(c) ==
    LET high == SelectSeq(AbilityOrder, LAMBDA ability : score_unusual(c[ability]))
    IN  [i \in 1..Len(high) |-> score_warning(high[i])]

\* The error list of validate_character.
validation_errors_of(c) ==
    (IF c.level < 1 THEN <<"Character level must be at least 1">> ELSE <<>>)
        \o (IF c.experience_points < 0
            THEN <<"Experience points cannot be negative">> ELSE <<>>)
        \o ability_errors(c)
        \o (IF c.current_hit_points > c.max_hit_points
            THEN <<"Current hit points cannot exceed maximum hit points">> ELSE <<>>)
        \o (IF c.temporary_hit_points < 0
            THEN <<"Temporary hit points cannot be negative">> ELSE <<>>)

\* validate_character stopping at the first error it finds.
validate_character_first_error(c) ==
    LET all == validation_errors_of(c)
        validation_errors == IF Len(all) > 0 THEN <<all[1]>> ELSE <<>>
        warnings == ability_warnings(c)
    IN  [character |-> [c EXCEPT !.is_valid = (Len(validation_errors) = 0),
                                 !.validation_errors = validation_errors],
         ret |-> [is_valid |-> (Len(validation_errors) = 0),
                  validation_errors |-> validation_errors, warnings |-> warnings]]

\* validate_character: the row with its validation status set, and the response.
validate_character(c) ==
    LET validation_errors == validation_errors_of(c)
        warnings == ability_warnings(c)
    IN  [character |-> [c EXCEPT !.is_valid = (Len(validation_errors) = 0),
                                 !.validation_errors = validation_errors],
         ret |-> [is_valid |-> (Len(validation_errors) = 0),
                  validation_errors |-> validation_errors, warnings |-> warnings]]

\* GET /{character_id}/validation
ValidateCharacter ==
    LET res == validate_character(character)
    IN  /\ character' = res.character
        /\ clast' = [op |-> "validate", input |-> None, ret |-> res.ret, pre |-> character]
        /\ UNCHANGED <<rvars, hvars, updates>>

CharacterInit ==
    /\ \E character_data \in CreateInputs : character = Character(character_data)
    /\ updates = 0
    /\ clast = NoCharacterCall
    /\ status = [r \in Rulesets |-> DRAFT]
    /\ ruleset_dependencies = {}
    /\ was_terminal = [r \in Rulesets |-> FALSE]
    /\ rlast = NoCall
    /\ DefaultAttributes
    /\ NoHomebrew

CharacterNext ==
    \/ LevelUp
    \/ \E xp \in XpInputs : AddExperience(xp)
    \/ \E d \in UpdateInputs : UpdateCharacter(d.key :> d.value)
    \/ \E d \in SpellcastingUpdates : UpdateCharacter(d.key :> d.value)
    \/ ValidateCharacter

CharacterSpec == CharacterInit /\ [][CharacterNext]_vars

(***************************************************************************)
(* Specification of progression alone: characters of every dexterity score *)
(* that only level up and gain experience.                                 *)
(***************************************************************************)
DexterityScores == 1..30

ProgressionInputs ==
    {[character_name |-> "Hero", dexterity |-> d, wisdom |-> w,
      spellcasting_ability |-> sp] :
        d \in DexterityScores, w \in {7, 18}, sp \in SpellcastingInputs}

ProgressionInit ==
    /\ \E character_data \in ProgressionInputs : character = Character(character_data)
    /\ updates = 0
    /\ clast = NoCharacterCall
    /\ status = [r \in Rulesets |-> DRAFT]
    /\ ruleset_dependencies = {}
    /\ was_terminal = [r \in Rulesets |-> FALSE]
    /\ rlast = NoCall
    /\ DefaultAttributes
    /\ NoHomebrew

ProgressionNext ==
    \/ LevelUp
    \/ \E xp \in XpInputs : AddExperience(xp)
    \/ \E skill \in SkillInputs : GetSkillModifier(skill)

ProgressionSpec == ProgressionInit /\ [][ProgressionNext]_vars

(***************************************************************************)
(* Claims about character progression and derivation.                      *)
(***************************************************************************)
\* floor(n / 2), stated without the division operator.
Floor2(n) == CHOOSE q \in -50..50 : 2 * q <= n /\ n < 2 * q + 2

\* floor(n / 4)
Floor4(n) == CHOOSE q \in -50..50 : 4 * q <= n /\ n < 4 * q + 4

AddedExperience == clast.op = "add_experience" /\ clast.ret \in {"True", "False"}

LevelledUp == clast.op = "level_up" \/ (AddedExperience /\ clast.ret = "True")

\* C5: add_experience(xp) whose new total reaches experience_to_next_level
\* returns true and raises level by exactly 1, however far the total exceeds
\* the threshold.
C5_ExactlyOneLevelUp ==
    ( /\ AddedExperience
      /\ clast.pre.experience_points + clast.input >= clast.pre.experience_to_next_level )
        => (clast.ret = "True" /\ character.level = clast.pre.level + 1)

C5_Witness ==
    /\ AddedExperience
    /\ clast.pre.experience_points + clast.input >= 2 * clast.pre.experience_to_next_level
    /\ clast.ret = "True"
    /\ character.level = clast.pre.level + 1

\* C6: add_experience with xp < 1 is rejected as invalid input: the result is
\* an error, not a level-up flag, and the character is left unchanged.
C6_NonPositiveXpRejected ==
    (clast.op = "add_experience" /\ clast.input < 1)
        => (clast.ret = "InvalidInput" /\ character = clast.pre)

C6_Witness ==
    /\ clast.op = "add_experience"
    /\ clast.input < 0
    /\ clast.pre.experience_points >= 150
    /\ clast.ret = "InvalidInput"

\* C7: add_experience(xp) with xp >= 1 whose new total stays below
\* experience_to_next_level returns false, adds exactly xp to experience_points
\* and leaves level, proficiency_bonus, skills, the combat profile and the
\* version unchanged.
C7_BelowThresholdOnlyAddsXp ==
    ( /\ clast.op = "add_experience"
      /\ clast.input >= 1
      /\ clast.pre.experience_points + clast.input < clast.pre.experience_to_next_level )
        => /\ clast.ret = "False"
           /\ character.experience_points = clast.pre.experience_points + clast.input
           /\ character.level = clast.pre.level
           /\ character.proficiency_bonus = clast.pre.proficiency_bonus
           /\ character.skills = clast.pre.skills
           /\ character.armor_class = clast.pre.armor_class
           /\ character.initiative_bonus = clast.pre.initiative_bonus
           /\ character.spell_save_dc = clast.pre.spell_save_dc
           /\ character.spell_attack_bonus = clast.pre.spell_attack_bonus
           /\ character.major_version = clast.pre.major_version
           /\ character.minor_version = clast.pre.minor_version
           /\ character.patch_version = clast.pre.patch_version

C7_Witness ==
    /\ clast.op = "add_experience"
    /\ clast.input = 150
    /\ clast.pre.experience_points = 0
    /\ clast.pre.experience_to_next_level = 300
    /\ clast.ret = "False"
    /\ character.experience_points = 150

\* C8: after every character mutation each of the six stored ability
\* modifiers equals floor((score - 10) / 2) of the current score.
C8_ModifiersFollowScores ==
    \A a \in Abilities : get_ability_modifier(character, a) = Floor2(character[a] - 10)

\* C9: in every reachable character state proficiency_bonus equals
\* 2 + floor((level - 1) / 4).
C9_ProficiencyBonusFollowsLevel ==
    character.proficiency_bonus = 2 + Floor4(character.level - 1)

\* C10: after level_up each of the 18 skills has bonus = floor((current score
\* of its governing ability - 10) / 2) + (the new proficiency_bonus if the
\* skill is in skill_proficiencies, else 0), and the table has exactly the
\* 18 keys.
C10_SkillsAfterLevelUp ==
    LevelledUp =>
        /\ DOMAIN character.skills = Skills
        /\ Cardinality(Skills) = 18
        /\ \A skill \in Skills :
              character.skills[skill] =
                  Floor2(character[SkillAbility[skill]] - 10)
                    + (IF skill \in character.skill_proficiencies
                       THEN character.proficiency_bonus ELSE 0)

(***************************************************************************)
(* Specification of validation: stored rows of every kind, validated.      *)
(***************************************************************************)
\* Values of the stored columns that validate_character reads.
WideScores == {0, 1, 20, 21, 30, 31}
NarrowScores == {10, 35}

StoredRows ==
    {[character_name |-> n, level |-> l, experience_points |-> xp,
      strength |-> s, dexterity |-> d, constitution |-> co,
      intelligence |-> i, wisdom |-> w, charisma |-> ch,
      current_hit_points |-> hp, temporary_hit_points |-> t] :
        n \in {"", "Hero"}, l \in {0, 1}, xp \in {-5, 0},
        s \in WideScores, d \in WideScores, co \in NarrowScores,
        i \in NarrowScores, w \in NarrowScores, ch \in NarrowScores,
        hp \in {0, 5}, t \in {-1, 0}}

\* A row as create_character and update_character have left it.
ValidationInit ==
    /\ \E data \in StoredRows :
           character = update_from_dict(Character([character_name |-> "Hero"]), data)
    /\ updates = 0
    /\ clast = NoCharacterCall
    /\ status = [r \in Rulesets |-> DRAFT]
    /\ ruleset_dependencies = {}
    /\ was_terminal = [r \in Rulesets |-> FALSE]
    /\ rlast = NoCall
    /\ DefaultAttributes
    /\ NoHomebrew

ValidationNext == ValidateCharacter

ValidationSpec == ValidationInit /\ [][ValidationNext]_vars

(***************************************************************************)
(* Claims about the combat values.                                         *)
(***************************************************************************)
\* C11: the armor class is 10 + dexterity_modifier when the modifier is
\* positive and 10 otherwise, so it is at least 10 for every dexterity score:
\* a negative modifier never lowers it.
C11_ArmorClassFloor ==
    /\ character.armor_class =
            (IF character.dexterity_modifier > 0 THEN 10 + character.dexterity_modifier ELSE 10)
    /\ character.armor_class >= 10

\* A character of dexterity 1 (modifier -5) has levelled up and its armor class is 10.
C11_Witness ==
    /\ LevelledUp
    /\ character.dexterity = 1
    /\ character.dexterity_modifier = -5
    /\ character.armor_class = 10

\* C12: after the combat values are recomputed, a character with a
\* spellcasting ability has spell_save_dc = 8 + proficiency_bonus + the
\* modifier of that ability and spell_attack_bonus = proficiency_bonus + that
\* modifier, and a character without one has both values 0.
C12_SpellValuesFollowAbility ==
    (clast.op = "none" \/ LevelledUp) =>
        IF character.spellcasting_ability # None
        THEN LET modifier ==
                     get_ability_modifier(character, lower(character.spellcasting_ability))
             IN  /\ character.spell_save_dc = 8 + character.proficiency_bonus + modifier
                 /\ character.spell_attack_bonus = character.proficiency_bonus + modifier
        ELSE /\ character.spell_save_dc = 0
             /\ character.spell_attack_bonus = 0

(***************************************************************************)
(* Claims about progression alone.                                         *)
(***************************************************************************)
\* C13: across any sequence of level_up and add_experience calls, neither the
\* level nor the proficiency bonus ever decreases.
C13_LevelAndBonusNeverDecrease ==
    clast.op \in {"level_up", "add_experience"} =>
        /\ character.level >= clast.pre.level
        /\ character.proficiency_bonus >= clast.pre.proficiency_bonus

\* The level-up from level 4 to level 5 has raised the proficiency bonus from 2 to 3.
C13_Witness ==
    /\ clast.op = "level_up"
    /\ clast.pre.level = 4
    /\ clast.pre.proficiency_bonus = 2
    /\ character.level = 5
    /\ character.proficiency_bonus = 3

\* C24: level_up and add_experience never change experience_to_next_level, so
\* once experience_points has reached it, every later add_experience call
\* with xp >= 1 returns true and raises the level by 1 again.
C24_StaticThreshold ==
    /\ clast.op \in {"level_up", "add_experience"} =>
           character.experience_to_next_level = clast.pre.experience_to_next_level
    /\ (/\ AddedExperience
         /\ clast.input >= 1
         /\ clast.pre.experience_points >= clast.pre.experience_to_next_level) =>
            /\ clast.ret = "True"
            /\ character.level = clast.pre.level + 1

\* A character at 300 of 300 experience points and level 2 has gained 150
\* more and has levelled up again.
C24_Witness ==
    /\ AddedExperience
    /\ clast.pre.experience_points = 300
    /\ clast.pre.experience_to_next_level = 300
    /\ clast.pre.level = 2
    /\ clast.input = 150
    /\ clast.ret = "True"
    /\ character.level = 3
    /\ character.experience_to_next_level = 300

\* C27: after a direct edit of a character the returned row is re-validated:
\* its is_valid flag is the validator's verdict on the edited data, so that an
\* edit that introduces a violation yields is_valid false.
C27_EditIsRevalidated ==
    (clast.op = "update" /\ clast.ret = "ok") =>
        character.is_valid = (validation_errors_of(character) = <<>>)

\* C22: a skill lookup with a name outside the closed set of the 18 skill
\* names is rejected with an error result and not answered with a bonus.
C22_UnknownSkillRejected ==
    (clast.op = "get_skill_modifier" /\ lower(clast.input) \notin Skills)
        => clast.ret.raised # None

(***************************************************************************)
(* Claims about validate_character.                                        *)
(***************************************************************************)
Range(seq) == {seq[i] : i \in DOMAIN seq}

Validated == clast.op = "validate"

\* The number of rules of validate_character that a row violates, each
\* out-of-range ability score counting once.
ViolatedChecks(c) ==
    (IF c.level < 1 THEN 1 ELSE 0)
        + (IF c.experience_points < 0 THEN 1 ELSE 0)
        + Cardinality({ability \in Abilities : c[ability] < 1 \/ c[ability] > 30})
        + (IF c.current_hit_points > c.max_hit_points THEN 1 ELSE 0)
        + (IF c.temporary_hit_points < 0 THEN 1 ELSE 0)

\* C14: validate reports every violated rule and does not stop at the first:
\* the number of errors is the number of violated checks, and the character is
\* invalid when there is any.
C14_EveryViolationReported ==
    Validated =>
        /\ Len(clast.ret.validation_errors) = ViolatedChecks(clast.pre)
        /\ ViolatedChecks(clast.pre) > 0 => ~clast.ret.is_valid

\* Negative experience, current hit points above the maximum and one ability
\* score of 35, nothing else wrong: exactly three errors and is_valid false.
C14_Witness ==
    /\ Validated
    /\ clast.pre.level >= 1
    /\ clast.pre.experience_points < 0
    /\ clast.pre.current_hit_points > clast.pre.max_hit_points
    /\ clast.pre.temporary_hit_points >= 0
    /\ {ability \in Abilities : score_out_of_range(clast.pre[ability])} = {"wisdom"}
    /\ clast.pre.wisdom = 35
    /\ Len(clast.ret.validation_errors) = 3
    /\ ~clast.ret.is_valid
    /\ ~character.is_valid

\* C15: validate reports an error, and is_valid false, for a character whose
\* name is empty or missing.
C15_EmptyNameIsAnError ==
    (Validated /\ clast.pre.character_name \in {"", None}) =>
        /\ clast.ret.validation_errors # <<>>
        /\ ~clast.ret.is_valid

\* C16: an ability score in 21..30 yields a warning and no error, a score
\* below 1 or above 30 an error and no warning, and is_valid is true exactly
\* when the error list is empty.
C16_WarningsAndErrors ==
    Validated =>
        /\ \A ability \in Abilities :
              LET score == clast.pre[ability]
                  warned == score_warning(ability) \in Range(clast.ret.warnings)
                  failed == score_error(ability) \in Range(clast.ret.validation_errors)
              IN  /\ score \in 21..30 => (warned /\ ~failed)
                  /\ (score < 1 \/ score > 30) => (failed /\ ~warned)
        /\ clast.ret.is_valid = (clast.ret.validation_errors = <<>>)
        /\ character.is_valid = clast.ret.is_valid

\* A valid character with strength 30 and dexterity 21: two warnings, no error.
C16_Witness ==
    /\ Validated
    /\ clast.pre.strength = 30
    /\ clast.pre.dexterity = 21
    /\ clast.ret.warnings = <<score_warning("strength"), score_warning("dexterity")>>
    /\ clast.ret.validation_errors = <<>>
    /\ clast.ret.is_valid

(***************************************************************************)
(* Specification of the ruleset status machine.                            *)
(***************************************************************************)
RulesetInit ==
    /\ status = [r \in Rulesets |-> DRAFT]
    /\ ruleset_dependencies \in DependencyTables
    /\ was_terminal = [r \in Rulesets |-> FALSE]
    /\ rlast = NoCall
    /\ DefaultAttributes
    /\ NoHomebrew
    /\ character = Character([character_name |-> "Hero"])
    /\ updates = 0
    /\ clast = NoCharacterCall

RulesetNext ==
    \/ \E r \in Rulesets : Activate(r)
    \/ \E r \in Rulesets : Deactivate(r)
    \/ \E r \in Rulesets : Deprecate(r)
    \/ \E r \in Rulesets : Archive(r)

RulesetSpec == RulesetInit /\ [][RulesetNext]_vars

(***************************************************************************)
(* Specification of ruleset validation: rulesets with and without content  *)
(* that are activated, deactivated and validated.                          *)
(***************************************************************************)
ValidityInit ==
    /\ status = [r \in Rulesets |-> DRAFT]
    /\ ruleset_dependencies \in DependencyTables
    /\ was_terminal = [r \in Rulesets |-> FALSE]
    /\ rlast = NoCall
    /\ ruleset_type = [r \in Rulesets |-> "dnd_5e"]
    /\ compatibility_version = [r \in Rulesets |-> NoVersion]
    /\ \E path \in {"", directory("r1")} :
           content_path = [r \in Rulesets |-> IF r = "r1" THEN path ELSE directory(r)]
    /\ existing_paths \in {{directory(r) : r \in Rulesets}, {directory("r2")}}
    /\ character = Character([character_name |-> "Hero"])
    /\ updates = 0
    /\ clast = NoCharacterCall
    /\ NoHomebrew

ValidityNext ==
    \/ \E r \in Rulesets : Activate(r)
    \/ \E r \in Rulesets : Deactivate(r)
    \/ \E r \in Rulesets : ValidateRuleset(r)

ValiditySpec == ValidityInit /\ [][ValidityNext]_vars

(***************************************************************************)
(* Claims about ruleset validation.                                        *)
(***************************************************************************)
Occurrences(seq, x) == Cardinality({i \in DOMAIN seq : seq[i] = x})

\* C26: get_validation_errors returns exactly one dependency error for every
\* required dependency that is not active, none for a required dependency
\* that is active and none for an optional or conflicts row, in one list with
\* the errors of the content path.
C26_OneErrorPerInactiveRequirement ==
    rlast.op = "validate" =>
        \A d \in Rulesets \ {rlast.id} :
            Occurrences(rlast.ret.validation_errors,
                        "Required dependency is not active: " \o d)
                = IF \E row \in RequiredRows(rlast.id) :
                         row.dependency_id = d /\ status[d] # ACTIVE
                  THEN 1 ELSE 0

(***************************************************************************)
(* Homebrew content.  Scores are counted in tenths: 5 is the score 0.5.    *)
(***************************************************************************)
\* content.get(key, default)
get(content, key, default) == IF key \in DOMAIN content THEN content[key] ELSE default

max(a, b) == IF a >= b THEN a ELSE b
min(a, b) == IF a <= b THEN a ELSE b

\* sum(ability_increases.values())
RECURSIVE sum_values(_)
sum_values(d) ==
    IF DOMAIN d = {} THEN 0
    ELSE LET key == CHOOSE k \in DOMAIN d : TRUE
         IN  d[key] + sum_values([k \in DOMAIN d \ {key} |-> d[k]])

\* _validate_race_balance with a penalty of 0.2 for every point of increase
\* above 3 and the score returned as it is.
_validate_race_balance_per_point(content) ==
    LET ability_increases == get(content, "ability_score_increases", <<>>)
        total_increase == sum_values(ability_increases)
        traits == get(content, "traits", <<>>)
        score1 == IF total_increase <= 2 THEN 5 + 2
                  ELSE IF total_increase <= 3 THEN 5 + 1
                  ELSE 5 - 2 * total_increase
    IN  IF Len(traits) <= 3 THEN score1 + 1
        ELSE IF Len(traits) > 5 THEN score1 - 2
        ELSE score1

\* The score of a race when the return statement is reached, before the clamp.
_validate_race_balance_score(content) ==
    LET ability_increases == get(content, "ability_score_increases", <<>>)
        total_increase == sum_values(ability_increases)
        traits == get(content, "traits", <<>>)
        score1 == IF total_increase <= 2 THEN 5 + 2
                  ELSE IF total_increase <= 3 THEN 5 + 1
                  ELSE 5 - 2
    IN  IF Len(traits) <= 3 THEN score1 + 1
        ELSE IF Len(traits) > 5 THEN score1 - 2
        ELSE score1

\* The scorer with the first threshold of the increases read as "below 2".
_validate_race_balance_strict(content) ==
    LET total_increase == sum_values(get(content, "ability_score_increases", <<>>))
        traits == get(content, "traits", <<>>)
        score1 == IF total_increase < 2 THEN 5 + 2
                  ELSE IF total_increase <= 3 THEN 5 + 1
                  ELSE 5 - 2
        score2 == IF Len(traits) <= 3 THEN score1 + 1
                  ELSE IF Len(traits) > 5 THEN score1 - 2
                  ELSE score1
    IN  max(0, min(10, score2))

_validate_race_balance(content) ==
    max(0, min(10, _validate_race_balance_score(content)))

_validate_class_balance_score(content) ==
    LET hit_die == get(content, "hit_die", "d8")
        armor_profs == Len(get(content, "armor_proficiencies", <<>>))
        weapon_profs == Len(get(content, "weapon_proficiencies", <<>>))
        score1 == IF hit_die = "d12" THEN 5 + 1
                  ELSE IF hit_die = "d6" THEN 5 - 1
                  ELSE 5
    IN  IF armor_profs + weapon_profs <= 4 THEN score1 + 1
        ELSE IF armor_profs + weapon_profs > 8 THEN score1 - 2
        ELSE score1

_validate_class_balance(content) ==
    max(0, min(10, _validate_class_balance_score(content)))

_validate_spell_balance_score(content) ==
    LET level == get(content, "level", 0)
        components == get(content, "components", <<>>)
        score1 == IF level <= 3 THEN 5 + 1
                  ELSE IF level >= 7 THEN 5 - 1
                  ELSE 5
    IN  IF (\E i \in DOMAIN components : components[i] = "V")
              /\ (\E i \in DOMAIN components : components[i] = "S")
        THEN score1 + 1
        ELSE score1

_validate_spell_balance(content) ==
    max(0, min(10, _validate_spell_balance_score(content)))

rarity_scores ==
    [common |-> 1, uncommon |-> 0, rare |-> -1, very_rare |-> -2, legendary |-> -3]

\* The item score with the penalty of a magical item doubled.
_validate_item_balance_score_doubled(content) ==
    LET rarity == get(content, "rarity", "common")
        score1 == 5 + get(rarity_scores, rarity, 0)
    IN  IF get(content, "magical", FALSE) THEN score1 - 2 ELSE score1

_validate_item_balance_score(content) ==
    LET rarity == get(content, "rarity", "common")
        score1 == 5 + get(rarity_scores, rarity, 0)
    IN  IF get(content, "magical", FALSE) THEN score1 - 1 ELSE score1

_validate_item_balance(content) ==
    max(0, min(10, _validate_item_balance_score(content)))

\* "word" in text, for the texts of the requests served.
contains(text, word) ==
    <<text, word>> \in {<<"self", "self">>, <<"60 feet", "60 feet">>,
                        <<"concentration, up to 1 hour", "concentration">>,
                        <<"concentration, up to 1 hour", "1 hour">>}

\* total_power of the power budget of a content type, in tenths.
_analyze_race_power_budget(content) ==
    sum_values(get(content, "ability_score_increases", <<>>)) * 5
        + Len(get(content, "traits", <<>>)) * 3
        + Len(get(content, "subraces", <<>>)) * 4

hit_die_power == [d6 |-> 5, d8 |-> 10, d10 |-> 15, d12 |-> 20]

_analyze_class_power_budget(content) ==
    get(hit_die_power, get(content, "hit_die", "d8"), 10)
        + (Len(get(content, "armor_proficiencies", <<>>))
              + Len(get(content, "weapon_proficiencies", <<>>))) * 2
        + Len(get(content, "features", <<>>)) * 3
        + (IF get(content, "spellcasting", FALSE) THEN 10 ELSE 0)

_analyze_spell_power_budget(content) ==
    LET range_value == get(content, "range", "")
        duration == get(content, "duration", "")
    IN  get(content, "level", 0) * 5
            + Len(get(content, "components", <<>>)) * 1
            + (IF contains(range_value, "self") THEN 5
               ELSE IF contains(range_value, "touch") THEN 3
               ELSE IF contains(range_value, "60 feet") \/ contains(range_value, "30 feet")
               THEN 1 ELSE 0)
            + (IF contains(duration, "concentration") THEN 2
               ELSE IF contains(duration, "1 hour") \/ contains(duration, "8 hours")
               THEN 3 ELSE 0)

rarity_power == [common |-> 5, uncommon |-> 10, rare |-> 15, very_rare |-> 20, legendary |-> 25]

_analyze_item_power_budget(content) ==
    get(rarity_power, get(content, "rarity", "common"), 5)
        + Len(get(content, "properties", <<>>)) * 2
        + (IF get(content, "magical", FALSE) THEN 5 ELSE 0)
        + (IF get(content, "attunement", FALSE) THEN -3 ELSE 0)

_analyze_power_budget(content_type, content) ==
    CASE content_type = "race" -> _analyze_race_power_budget(content)
      [] content_type = "class" -> _analyze_class_power_budget(content)
      [] content_type = "spell" -> _analyze_spell_power_budget(content)
      [] content_type = "item" -> _analyze_item_power_budget(content)
      [] OTHER -> 0

\* The balance score of a content type in _validate_content.
balance_score_of(content_type, content) ==
    CASE content_type = "race" -> _validate_race_balance(content)
      [] content_type = "class" -> _validate_class_balance(content)
      [] content_type = "spell" -> _validate_spell_balance(content)
      [] content_type = "item" -> _validate_item_balance(content)
      [] OTHER -> 0

\* The warnings of _validate_content.
warnings_of(content_type, content) ==
    LET described ==
            IF get(content, "description", "") = ""
            THEN <<"Content should have a description">> ELSE <<>>
    IN  IF content_type \in {"race", "class", "spell", "item"}
        THEN described
        ELSE described \o <<"Unknown content type: " \o content_type>>

\* _validate_content with a score below 0.3 reported as an error.
_validate_content_rejecting(content_type, content) ==
    LET balance_score == balance_score_of(content_type, content)
        validation_errors ==
            (IF get(content, "name", "") = "" THEN <<"Content must have a name">> ELSE <<>>)
                \o (IF balance_score < 3 THEN <<"Content is unbalanced">> ELSE <<>>)
    IN  [is_valid |-> (Len(validation_errors) = 0), validation_errors |-> validation_errors,
         warnings |-> warnings_of(content_type, content), balance_score |-> balance_score,
         total_power |-> _analyze_power_budget(content_type, content)]

\* _validate_content: the name and description checks, the balance score of
\* the content type and the total of its power budget.
_validate_content(content_type, content) ==
    LET validation_errors ==
            IF get(content, "name", "") = "" THEN <<"Content must have a name">> ELSE <<>>
    IN  [is_valid |-> (Len(validation_errors) = 0), validation_errors |-> validation_errors,
         warnings |-> warnings_of(content_type, content),
         balance_score |-> balance_score_of(content_type, content),
         total_power |-> _analyze_power_budget(content_type, content)]

\* POST /validate
ValidateHomebrewContent ==
    /\ hlast' =
          IF request.content_type = None
          THEN [op |-> "validate", status |-> 400, detail |-> "Content type is required"]
          ELSE IF request.ruleset_id = None
          THEN [op |-> "validate", status |-> 400, detail |-> "Ruleset ID is required"]
          ELSE [op |-> "validate", status |-> 200,
                ret |-> _validate_content(request.content_type, request.content)]
    /\ UNCHANGED <<rvars, cvars, request>>

\* The functions that the module homebrew.py defines.
ModuleFunctions ==
    {"list_homebrew_content", "validate_homebrew_content", "analyze_content_balance",
     "get_content_template", "export_homebrew_content", "_validate_content",
     "_analyze_content_balance", "_get_content_template", "_export_content",
     "_validate_race_balance", "_validate_class_balance", "_validate_spell_balance",
     "_validate_item_balance", "_analyze_power_budget", "_analyze_race_power_budget",
     "_analyze_class_power_budget", "_analyze_spell_power_budget",
     "_analyze_item_power_budget"}

\* _analyze_content_balance: a known content type is handed to the function
\* _analyze_<type>_balance.  The module defines none of the four, so that the
\* call raises NameError; any other type keeps the initial values.
_analyze_content_balance(content_type, content) ==
    IF /\ content_type \in {"race", "class", "spell", "item"}
       /\ ("_analyze_" \o content_type \o "_balance") \notin ModuleFunctions
    THEN [raised |-> "NameError", balance_score |-> 0, power_budget |-> <<>>,
          recommendations |-> <<>>]
    ELSE [raised |-> None, balance_score |-> 0, power_budget |-> <<>>,
          recommendations |-> <<>>]

\* POST /analyze-balance: an exception of the analysis is answered 500.
AnalyzeContentBalance ==
    /\ hlast' =
          IF request.content_type = None
          THEN [op |-> "analyze", status |-> 400, detail |-> "Content type is required"]
          ELSE LET balance_analysis ==
                       _analyze_content_balance(request.content_type, request.content)
               IN  IF balance_analysis.raised # None
                   THEN [op |-> "analyze", status |-> 500,
                         detail |-> "Failed to analyze content balance"]
                   ELSE [op |-> "analyze", status |-> 200, ret |-> balance_analysis]
    /\ UNCHANGED <<rvars, cvars, request>>

\* The optional keys of a request body: one of the values, or the key left out.
Optional(key, values) == {<<>>} \cup {key :> v : v \in values}

Listed(n) == [i \in 1..n |-> "entry"]

CommonContents ==
    {n @@ d : n \in Optional("name", {"", "Homebrew"}),
              d \in Optional("description", {"A description"})}

RaceContents ==
    {a @@ t :
        a \in Optional("ability_score_increases",
                       {<<>>, [strength |-> 2], [strength |-> 2, dexterity |-> 1],
                        [strength |-> 2, dexterity |-> 2], [strength |-> -3],
                        [strength |-> 3, dexterity |-> 3, constitution |-> 3]}),
        t \in Optional("traits", {Listed(n) : n \in {0, 3, 4, 5, 6}})}

ClassContents ==
    {h @@ a @@ w :
        h \in Optional("hit_die", {"d6", "d8", "d10", "d12"}),
        a \in Optional("armor_proficiencies", {Listed(n) : n \in {0, 2, 5}}),
        w \in Optional("weapon_proficiencies", {Listed(n) : n \in {2, 4}})}

SpellContents ==
    {l @@ c @@ r @@ d :
        l \in Optional("level", {0, 3, 4, 6, 7, 9}),
        c \in Optional("components", {<<>>, <<"V">>, <<"M">>, <<"V", "S">>, <<"S", "M", "V">>}),
        r \in Optional("range", {"self", "60 feet"}),
        d \in Optional("duration", {"concentration, up to 1 hour"})}

ItemContents ==
    {r @@ m @@ a :
        r \in Optional("rarity",
                       {"common", "uncommon", "rare", "very_rare", "legendary", "artifact"}),
        m \in Optional("magical", {TRUE, FALSE}),
        a \in Optional("attunement", {TRUE})}

Requests ==
    {[content_type |-> "race", ruleset_id |-> "r1", content |-> c @@ x] :
        c \in CommonContents, x \in RaceContents}
    \cup {[content_type |-> "class", ruleset_id |-> "r1", content |-> c @@ x] :
        c \in CommonContents, x \in ClassContents}
    \cup {[content_type |-> "spell", ruleset_id |-> "r1", content |-> c @@ x] :
        c \in CommonContents, x \in SpellContents}
    \cup {[content_type |-> "item", ruleset_id |-> "r1", content |-> c @@ x] :
        c \in CommonContents, x \in ItemContents}
    \cup {[content_type |-> t, ruleset_id |-> r, content |-> c] :
        t \in {None, "feat", "race"}, r \in {None, "r1"}, c \in CommonContents}

HomebrewInit ==
    /\ request \in Requests
    /\ hlast = NoHomebrewCall
    /\ status = [r \in Rulesets |-> DRAFT]
    /\ ruleset_dependencies = {}
    /\ was_terminal = [r \in Rulesets |-> FALSE]
    /\ rlast = NoCall
    /\ DefaultAttributes
    /\ character = Character([character_name |-> "Hero"])
    /\ updates = 0
    /\ clast = NoCharacterCall

HomebrewNext ==
    \/ ValidateHomebrewContent
    \/ AnalyzeContentBalance

HomebrewSpec == HomebrewInit /\ [][HomebrewNext]_vars

(***************************************************************************)
(* Claims about the balance score.                                         *)
(***************************************************************************)
ValidatedContent == hlast.op = "validate" /\ hlast.status = 200

\* C20: for every content type (race, class, spell, item) and every
\* combination of attributes, the balance score is between 0.0 and 1.0.
C20_BalanceScoreInRange ==
    (ValidatedContent /\ request.content_type \in {"race", "class", "spell", "item"}) =>
        /\ 0 <= hlast.ret.balance_score
        /\ hlast.ret.balance_score <= 10

\* A magical legendary item has been scored 0.1, and this is its score
\* 0.5 - 0.3 - 0.1.
C20_Witness ==
    /\ ValidatedContent
    /\ request.content_type = "item"
    /\ get(request.content, "rarity", "common") = "legendary"
    /\ get(request.content, "magical", FALSE)
    /\ hlast.ret.balance_score = 1

\* C21: the is_valid verdict of homebrew validation depends only on whether a
\* name is present: contents that differ in balance-relevant attributes,
\* content type, balance score or power-budget total get the same verdict.
C21_VerdictFollowsNameOnly ==
    ValidatedContent => hlast.ret.is_valid = (get(request.content, "name", "") # "")

\* A named race of nine points of increase and six traits: score 0.1, power
\* budget 6.3, and valid.
C21_Witness ==
    /\ ValidatedContent
    /\ request.content_type = "race"
    /\ get(request.content, "name", "") = "Homebrew"
    /\ hlast.ret.balance_score = 1
    /\ hlast.ret.total_power = 63
    /\ hlast.ret.is_valid

\* C23: the balance analysis completes for each of the content types race,
\* class, spell and item and returns a balance score, a power budget and a
\* recommendation list: it never ends in a failure for a known content type.
C23_AnalysisCompletes ==
    (hlast.op = "analyze" /\ request.content_type \in {"race", "class", "spell", "item"})
        => hlast.status = 200

\* The claimed race score in tenths: the base 5, the part a of the total
\* increase and the part t of the number of traits, clamped to 0..10.
ClaimedRaceScore(content) ==
    LET total == IF "ability_score_increases" \in DOMAIN content
                 THEN sum_values(content["ability_score_increases"]) ELSE 0
        count == IF "traits" \in DOMAIN content THEN Len(content["traits"]) ELSE 0
        a == IF total <= 2 THEN 2 ELSE IF total > 2 /\ total <= 3 THEN 1 ELSE -2
        t == IF count <= 3 THEN 1 ELSE IF count \in {4, 5} THEN 0 ELSE -2
        raw == 5 + a + t
    IN  IF raw < 0 THEN 0 ELSE IF raw > 10 THEN 10 ELSE raw

\* C28: the race balance score is the clamp to [0, 1] of 0.5 + a + t, with
\* a = +0.2 for a total increase of at most 2, +0.1 for a total above 2 and
\* at most 3, -0.2 above 3, and t = +0.1 for at most 3 traits, 0 for 4 or 5,
\* -0.2 above 5; a missing attribute counts as total 0 and as 0 traits.
C28_RaceScoreFormula ==
    (ValidatedContent /\ request.content_type = "race") =>
        hlast.ret.balance_score = ClaimedRaceScore(request.content)

\* A race of total increase exactly 2 and four traits has been scored 0.7,
\* and a race without either attribute is one of the requests served.
C28_Witness ==
    /\ ValidatedContent
    /\ request.content_type = "race"
    /\ "ability_score_increases" \in DOMAIN request.content
    /\ sum_values(request.content["ability_score_increases"]) = 2
    /\ "traits" \in DOMAIN request.content
    /\ Len(request.content["traits"]) = 4
    /\ hlast.ret.balance_score = 7

\* The score of the content of a known type before the clamp.
ScoreBeforeClamp ==
    CASE request.content_type = "race" -> _validate_race_balance_score(request.content)
      [] request.content_type = "class" -> _validate_class_balance_score(request.content)
      [] request.content_type = "spell" -> _validate_spell_balance_score(request.content)
      [] request.content_type = "item" -> _validate_item_balance_score(request.content)

VersionCharacters == {"1", "2", ".", "x"}

VersionStrings ==
    {<<>>}
        \cup {<<a>> : a \in VersionCharacters}
        \cup {<<a, b>> : a \in VersionCharacters, b \in VersionCharacters}
        \cup {<<a, ".", b>> : a \in {"1", "2", "x"}, b \in {"1", "2", "x"}}

Compared == {"r1", "r2"}

\* The tables with rows between the two compared rulesets only.
ComparedTables ==
    {T \in SUBSET {[ruleset_id |-> p[1], dependency_id |-> p[2], dependency_type |-> t] :
                      p \in {<<"r1", "r2">>, <<"r2", "r1">>}, t \in DependencyTypes} :
        \A x \in T : \A y \in T :
            (x.ruleset_id = y.ruleset_id /\ x.dependency_id = y.dependency_id) => x = y}

CompatibilityInit ==
    /\ status = [r \in Rulesets |-> DRAFT]
    /\ ruleset_dependencies \in ComparedTables
    /\ was_terminal = [r \in Rulesets |-> FALSE]
    /\ rlast = NoCall
    /\ \E t \in {"dnd_5e", "homebrew"} :
           ruleset_type = [r \in Rulesets |-> IF r = "r2" THEN t ELSE "dnd_5e"]
    /\ \E v1 \in VersionStrings \cup {NoVersion} : \E v2 \in VersionStrings \cup {NoVersion} :
           compatibility_version =
               [r \in Rulesets |-> IF r = "r1" THEN v1 ELSE IF r = "r2" THEN v2 ELSE NoVersion]
    /\ DefaultPaths
    /\ character = Character([character_name |-> "Hero"])
    /\ updates = 0
    /\ clast = NoCharacterCall
    /\ NoHomebrew

CompatibilityNext ==
    \E a \in Compared : \E b \in Compared \ {a} : IsCompatibleWith(a, b)

CompatibilitySpec == CompatibilityInit /\ [][CompatibilityNext]_vars

(***************************************************************************)
(* Claims about the compatibility check.                                   *)
(***************************************************************************)
Compatibility == rlast.op = "is_compatible_with"

ConflictsRow(a, b) ==
    \E row \in ruleset_dependencies :
        row.ruleset_id = a /\ row.dependency_id = b /\ row.dependency_type = "conflicts"

\* A version that is dot-separated integers: digits and single dots between them.
DotSeparatedIntegers(v) ==
    /\ v # NoVersion
    /\ v # <<>>
    /\ \A i \in DOMAIN v : v[i] \in Digits \cup {"."}
    /\ v[1] # "." /\ v[Len(v)] # "."
    /\ \A i \in 1..(Len(v) - 1) : ~(v[i] = "." /\ v[i + 1] = ".")

\* The integer before the first dot of such a version.
FirstInteger(v) ==
    LET n == CHOOSE k \in 1..Len(v) :
                 /\ \A i \in 1..k : v[i] # "."
                 /\ (k = Len(v) \/ v[k + 1] = ".")
    IN  decimal(SubSeq(v, 1, n))

HasVersion(v) == v # NoVersion /\ v # <<>>

\* C17: is_compatible_with(A, B) is false when a conflicts edge exists between
\* A and B, whichever of them carries it, false when their types differ, false
\* when both have a compatibility_version and the first dot-separated integers
\* differ, and true in every other case, an absent version on either side
\* included.  Stated for versions that are absent or dot-separated integers.
C17_CompatibilityRules ==
    LET a == rlast.id
        b == rlast.other
        va == compatibility_version[a]
        vb == compatibility_version[b]
    IN  (/\ Compatibility
         /\ HasVersion(va) => DotSeparatedIntegers(va)
         /\ HasVersion(vb) => DotSeparatedIntegers(vb)) =>
            rlast.ret =
                Str(/\ ~ConflictsRow(a, b) /\ ~ConflictsRow(b, a)
                    /\ ruleset_type[a] = ruleset_type[b]
                    /\ ~(/\ HasVersion(va) /\ HasVersion(vb)
                          /\ FirstInteger(va) # FirstInteger(vb)))

\* C18: for a pair whose conflicts rows are the same in both directions, the
\* answer of is_compatible_with(A, B) is the answer of is_compatible_with(B, A).
C18_Symmetric ==
    (Compatibility /\ (ConflictsRow(rlast.id, rlast.other) <=> ConflictsRow(rlast.other, rlast.id)))
        => rlast.ret = Str(is_compatible_with(rlast.other, rlast.id))

\* Conflicts rows in both directions, versions 1.2 and 2.1: false in this
\* order as in the other.
C18_Witness ==
    /\ Compatibility
    /\ ConflictsRow(rlast.id, rlast.other)
    /\ ConflictsRow(rlast.other, rlast.id)
    /\ ruleset_type[rlast.id] = ruleset_type[rlast.other]
    /\ compatibility_version[rlast.id] = <<"1", ".", "2">>
    /\ compatibility_version[rlast.other] = <<"2", ".", "1">>
    /\ rlast.ret = "False"
    /\ ~is_compatible_with(rlast.other, rlast.id)

\* C19: when both rulesets have a compatibility_version and one of the two is
\* not dot-separated integers, the answer is false, even with equal leading
\* parts.
C19_FailsClosed ==
    LET va == compatibility_version[rlast.id]
        vb == compatibility_version[rlast.other]
    IN  (/\ Compatibility
         /\ HasVersion(va) /\ HasVersion(vb)
         /\ ~DotSeparatedIntegers(va) \/ ~DotSeparatedIntegers(vb))
            => rlast.ret = "False"

\* Versions 1.x and 1.2 of two rulesets of one type without dependency rows: false.
C19_Witness ==
    /\ Compatibility
    /\ ruleset_dependencies = {}
    /\ ruleset_type[rlast.id] = ruleset_type[rlast.other]
    /\ compatibility_version[rlast.id] = <<"1", ".", "x">>
    /\ compatibility_version[rlast.other] = <<"1", ".", "2">>
    /\ rlast.ret = "False"

====
